---- MODULE Spec2Model ----
(***************************************************************************)
(* Retrieval-augmented WhatsApp auto-responder:                            *)
(*   - generateAutoResponse and retrySupabaseQuery (auto responder),       *)
(*   - retrieveRelevantChunks* (retrieval layer),                          *)
(*   - ShopifyDataProcessor / processShopifyStore (ingestion).             *)
(* One await point of the code is one action.  External collaborators      *)
(* (Supabase, embedder, Groq, WhatsApp sender, phone mapping) answer       *)
(* nondeterministically: a value, a reported error, or a thrown exception. *)
(***************************************************************************)
EXTENDS Integers, Sequences, FiniteSets, TLC

VARIABLES
    pc,                 \* position of generateAutoResponse ("idle" between calls)
    args,               \* fromNumber, toNumber, messageText, messageId
    loc,                \* its local variables
    attempt,            \* retrySupabaseQuery: loop variable
    queryCalls,         \* retrySupabaseQuery: invocations of queryFn so far
    waits,              \* retrySupabaseQuery: delays slept so far (ms each)
    queryResult,        \* retrySupabaseQuery: the value it returned
    result,             \* value returned to the caller
    escaped,            \* an exception left generateAutoResponse
    nReturns,           \* return statements executed by the current call
    calls,              \* external calls issued by the current call
    whatsapp_messages,  \* table whatsapp_messages, in insertion order
    store0,             \* whatsapp_messages when the current call began
    now,                \* Date.now()
    sends,              \* arguments of the sendWhatsAppMessage calls of the current call
    invocations,        \* calls of generateAutoResponse begun so far
    budget,             \* deliveries the inbound-message handler will still accept
    documents,          \* document chunks per file id (table behind match_documents)
    shopify_chunks,     \* table shopify_chunks, in insertion order
    retr,               \* a call of retrieveRelevantChunksFromFiles in progress
    catalog,            \* version of the Shopify catalog the source serves
    runs,               \* the calls of processShopifyStore, by run
    last_synced_at,     \* shopify_stores.last_synced_at, by store id
    tick                \* the clock of the ingestion side: calls of processShopifyStore so far

respVars == <<pc, args, loc, attempt, queryCalls, waits, queryResult, result, escaped,
              nReturns, calls, whatsapp_messages, store0, now, sends, invocations, budget>>
ingestVars == <<catalog, runs, last_synced_at, tick>>
vars == <<respVars, documents, shopify_chunks, retr, ingestVars>>

----------------------------------------------------------------------------
(* Bounds of the model *)

MaxStored == 22          \* rows already in whatsapp_messages at Init
MaxDeliveries == 2       \* deliveries handled when redelivery is studied
MaxClock == 2            \* clock values 0..MaxClock

(* Program constants *)

maxRetries == 3          \* retrySupabaseQuery default
HistoryLimit == 20       \* .limit(20)
HistoryWindow == 10      \* history.slice(-10)
RetrievalLimit == 5      \* retrieve...(queryEmbedding, ..., 5)

----------------------------------------------------------------------------
(* Generic sequence helpers *)

Min(a, b) == IF a <= b THEN a ELSE b
Max(a, b) == IF a >= b THEN a ELSE b

Range(s) == {s[i] : i \in 1..Len(s)}

\* Array.prototype.slice(0, n)
SliceFirst(s, n) == SubSeq(s, 1, Min(n, Len(s)))

\* Array.prototype.slice(-n)
SliceLast(s, n) == SubSeq(s, Max(1, Len(s) - n + 1), Len(s))

\* Stable insertion of the pair x = [key, item] into pairs sorted by key
RECURSIVE InsertByKey(_, _)
InsertByKey(x, s) ==
    IF s = <<>> THEN <<x>>
    ELSE IF x.key < Head(s).key THEN <<x>> \o s
    ELSE <<Head(s)>> \o InsertByKey(x, Tail(s))

\* Array.prototype.sort on [key, item] pairs: ascending keys, equal keys keep
\* their order
RECURSIVE SortByKey(_)
SortByKey(s) ==
    IF s = <<>> THEN <<>>
    ELSE InsertByKey(s[Len(s)], SortByKey(SubSeq(s, 1, Len(s) - 1)))

Items(s) == [i \in 1..Len(s) |-> s[i].item]

----------------------------------------------------------------------------
(* Embeddings: a vector is abstracted to one integer 0..MaxEmb, the distance *)
(* operator <-> to the absolute difference.                                  *)

MaxEmb == 3
MaxChunks == 2           \* chunks per file when retrieval is studied
MaxLimit == 2            \* limit argument when retrieval is studied

Abs(x) == IF x < 0 THEN -x ELSE x
Distance(e, q) == Abs(e - q)
Similarity(e, q) == MaxEmb - Distance(e, q)

\* embedText on success: a deterministic function of the text
EmbedValue(text) == Len(text) % (MaxEmb + 1)

----------------------------------------------------------------------------
(* Retrieval layer (retrieval.ts) *)

\* allChunks.sort((a, b) => b.similarity - a.similarity)
SortBySimilarityDesc(chunks) ==
    Items(SortByKey([i \in 1..Len(chunks) |->
                        [key |-> 0 - chunks[i].similarity, item |-> chunks[i]]]))

\* rpc match_documents(query_embedding, match_count, target_file): rows of the
\* file, best similarity first, at most match_count of them
MatchDocuments(docs, q, fileId, limit) ==
    LET rows == [i \in 1..Len(docs[fileId]) |->
                    [id |-> docs[fileId][i].id, chunk |-> docs[fileId][i].chunk,
                     similarity |-> Similarity(docs[fileId][i].embedding, q)]]
    IN  SliceFirst(SortBySimilarityDesc(rows), limit)

\* retrieveRelevantChunks when the rpc reports no error
RetrieveRelevantChunks(docs, q, fileId, limit) == MatchDocuments(docs, q, fileId, limit)

\* allChunks.push(...chunks.map(c => ({ ...c, file_id: fileId })))
PushChunks(allChunks, chunks, fileId) ==
    allChunks \o [i \in 1..Len(chunks) |->
                    [id |-> chunks[i].id, chunk |-> chunks[i].chunk,
                     similarity |-> chunks[i].similarity, file_id |-> fileId]]

\* Variant that truncates without sorting
SliceUnsorted(allChunks, limit) == SliceFirst(allChunks, limit)

\* allChunks.sort((a, b) => b.similarity - a.similarity).slice(0, limit)
SortAndSlice(allChunks, limit) == SliceFirst(SortBySimilarityDesc(allChunks), limit)

RECURSIVE CollectChunks(_, _, _, _)
CollectChunks(docs, q, fileIds, limit) ==
    IF fileIds = <<>> THEN <<>>
    ELSE LET n == Len(fileIds)
         IN  PushChunks(CollectChunks(docs, q, SubSeq(fileIds, 1, n - 1), limit),
                        RetrieveRelevantChunks(docs, q, fileIds[n], limit), fileIds[n])

\* retrieveRelevantChunksFromFiles when no rpc reports an error
RetrieveRelevantChunksFromFiles(docs, q, fileIds, limit) ==
    IF Len(fileIds) = 0 THEN <<>>
    ELSE IF Len(fileIds) = 1 THEN RetrieveRelevantChunks(docs, q, fileIds[1], limit)
    ELSE SortAndSlice(CollectChunks(docs, q, fileIds, limit), limit)

\* retrieveRelevantShopifyChunks when the query reports no error
RetrieveRelevantShopifyChunks(chunks, q, storeId, limit) ==
    LET Mine(r) == r.store_id = storeId
        mine == SelectSeq(chunks, Mine)
        data == SliceFirst(Items(SortByKey([i \in 1..Len(mine) |->
                    [key |-> Distance(mine[i].embedding, q), item |-> mine[i]]])), limit)
    IN  [i \in 1..Len(data) |->
            [id |-> data[i].id, chunk |-> data[i].chunk_text, similarity |-> 0,
             store_id |-> data[i].store_id, content_type |-> data[i].content_type,
             title |-> data[i].title, metadata |-> data[i].metadata]]

\* State of a call of the retrieval layer: its arguments, the loop position
\* and allChunks of retrieveRelevantChunksFromFiles, the files its rpc calls
\* were issued for, the number of rpc calls that have not returned yet, and
\* how it ended
RetrIdle == [pc |-> "idle", fileIds |-> <<>>, storeId |-> "", limit |-> 0, query |-> 0,
             index |-> 0, allChunks |-> <<>>, rpcCalls |-> <<>>, inFlight |-> 0,
             result |-> <<>>]

MaxRuns == 2             \* calls of processShopifyStore
MaxOverlap == 1          \* calls of processShopifyStore in progress at a time

Owners == {"s1"}          \* the stores that are synced
OtherStore == "s2"        \* a store with rows of its own that is not synced
RunIds == 1..MaxRuns

\* State of a call of processShopifyStore(storeId): position, the loop
\* variables of the current process<Kind>s, the chunks of the fetched page
\* that are still to be stored, whether its delete was applied, the runs
\* that had ended when it was called, whether it has requested a page, the
\* page requests it has made so far (kind, cursor passed, answer), and the step
\* that threw
RunIdle == [pc |-> "idle", owner |-> "", kind |-> 1, endCursor |-> 0,
            hasNextPage |-> TRUE, pending |-> <<>>, cleared |-> FALSE, prior |-> {},
            fetched |-> FALSE, pages |-> <<>>, error |-> ""]

----------------------------------------------------------------------------
(* Values *)

Customer == "c1"            \* fromNumber of the inbound messages
OtherCustomer == "c2"
Business == "b1"            \* toNumber, the business WhatsApp number
MessageIds == {"m1", "m2"}
TextOf(id) == IF id = "m1" THEN "hi" ELSE "price"   \* a redelivery repeats the text
DataSources == {"shopify", "file"}
StoreIds == {"s1", "s3"}
FileIdLists == {<<>>, <<"f1">>, <<"f1", "f2">>, <<"f3">>, <<"f3", "f4">>}
ReplyText == "reply"
NullEmbedding == -1         \* embedText returned null
None == <<>>                \* a column that is NULL; a set column is <<value>>

NoResult == [pending |-> TRUE]

\* Rows the phone_document_mapping query can return
MappingRows == [system_prompt : {"", "custom"}, auth_token : {"", "tok"},
                origin : {"", "org"}]
QueryResults == {[error |-> TRUE, data |-> <<>>]} \cup
                {[error |-> FALSE, data |-> d] : d \in {<<>>} \cup {<<r>> : r \in MappingRows}}

InitLoc == [dataSource |-> "", customSystemPrompt |-> "", auth_token |-> "",
            origin |-> "", queryEmbedding |-> NullEmbedding, fileIds |-> <<>>,
            storeId |-> "", matches |-> <<>>, history |-> <<>>,
            messages |-> <<>>, response |-> "", sendResult |-> ""]

----------------------------------------------------------------------------
(* Table whatsapp_messages *)

\* The row the inbound-message handler stores before it calls generateAutoResponse
InboundRow(id, from, to, text, t) ==
    [message_id |-> id, from_number |-> from, to_number |-> to, received_at |-> t,
     content_text |-> text, event_type |-> "MoMessage",
     auto_respond_sent |-> None, response_sent_at |-> None]

\* .insert([{ message_id: responseMessageId, ... event_type: "MtMessage" ... }])
OutboundRow(responseMessageId, from, to, text, t) ==
    [message_id |-> responseMessageId, from_number |-> to, to_number |-> from,
     received_at |-> t, content_text |-> text, event_type |-> "MtMessage",
     auto_respond_sent |-> None, response_sent_at |-> None]

\* `auto_${messageId}_${Date.now()}`
ResponseMessageId(messageId, t) == "auto_" \o messageId \o "_" \o ToString(t)

\* .insert([row]) accepted by the store; message_id is the key of the table, a
\* second row with a stored message_id is refused (an error the code never reads)
InsertRow(rows, row) ==
    IF \E i \in 1..Len(rows) : rows[i].message_id = row.message_id
    THEN rows
    ELSE Append(rows, row)

\* .update({ auto_respond_sent, response_sent_at }).eq("message_id", messageId)
UpdateSent(rows, messageId, sent, t) ==
    [i \in 1..Len(rows) |->
        IF rows[i].message_id = messageId
        THEN [rows[i] EXCEPT !.auto_respond_sent = <<sent>>, !.response_sent_at = <<t>>]
        ELSE rows[i]]

\* .or(from_number.eq.X, to_number.eq.X).order("received_at", asc).limit(20)
HistoryQuery(rows, fromNumber) ==
    LET Involves(m) == m.from_number = fromNumber \/ m.to_number = fromNumber
        mine == SelectSeq(rows, Involves)
    IN  SliceFirst(Items(SortByKey([i \in 1..Len(mine) |->
                      [key |-> mine[i].received_at, item |-> mine[i]]])), HistoryLimit)

\* (historyRows || []).filter(...).map(...); `row` is kept beside role and
\* content only to state properties of the history, the code does not read it
BuildHistory(historyRows) ==
    LET Keep(m) == m.content_text # "" /\
                   (m.event_type = "MoMessage" \/ m.event_type = "MtMessage")
        kept == SelectSeq(historyRows, Keep)
    IN  [i \in 1..Len(kept) |->
            [role |-> IF kept[i].event_type = "MoMessage" THEN "user" ELSE "assistant",
             content |-> kept[i].content_text, row |-> kept[i]]]

\* contextText = matches.map(m => m.chunk).join("\n\n")
RECURSIVE JoinChunks(_)
JoinChunks(matches) ==
    IF matches = <<>> THEN ""
    ELSE IF Len(matches) = 1 THEN matches[1].chunk
    ELSE matches[1].chunk \o "\n\n" \o JoinChunks(Tail(matches))

NoContextLiteral == "No relevant context found in the documents."

\* systemPrompt: the custom prompt or the default preamble, then the rule block
SystemPrompt(customSystemPrompt, dataSource) ==
    LET baseRules == IF dataSource = "shopify" THEN "shopify rules" ELSE "document rules"
    IN  IF customSystemPrompt # "" THEN customSystemPrompt \o "\n\n" \o baseRules
        ELSE (IF dataSource = "shopify" THEN "You are a helpful Shopify store assistant."
              ELSE "You are a helpful WhatsApp assistant.") \o "\n\n" \o baseRules

\* Variant that spreads the whole history into the prompt
ComposeMessagesNoSlice(systemPrompt, contextText, history, messageText) ==
    <<[role |-> "system",
       content |-> systemPrompt \o "\n\nCONTEXT:\n" \o
                   (IF contextText # "" THEN contextText ELSE NoContextLiteral)]>>
    \o history
    \o <<[role |-> "user", content |-> messageText]>>

\* messages = [system, ...history.slice(-10), { role: "user", content: messageText }]
ComposeMessages(systemPrompt, contextText, history, messageText) ==
    <<[role |-> "system",
       content |-> systemPrompt \o "\n\nCONTEXT:\n" \o
                   (IF contextText # "" THEN contextText ELSE NoContextLiteral)]>>
    \o SliceLast(history, HistoryWindow)
    \o <<[role |-> "user", content |-> messageText]>>

----------------------------------------------------------------------------
(* Initial contents of the stores *)

Patterns == {"dialogue", "mixed", "dialogueReversed", "mixedReversed"}
Reversed == {"dialogueReversed", "mixedReversed"}

Cycle(p) == IF p \in {"dialogue", "dialogueReversed"} THEN <<"mo", "mt">>
            ELSE <<"mo", "blank", "mt", "status", "other">>

\* Row i of n rows stored earlier: a customer turn, a reply, a message without
\* text, a delivery-status event, or a message of another customer.  In the
\* reversed patterns the insertion order is the opposite of the receipt order.
StoredRow(i, n, p) ==
    LET kind == Cycle(p)[((i - 1) % Len(Cycle(p))) + 1]
        t == IF p \in Reversed THEN 0 - i ELSE i - n - 1
        base == InboundRow("h" \o ToString(i), Customer, Business, "q" \o ToString(i), t)
    IN  CASE kind = "mo" -> base
          [] kind = "mt" -> OutboundRow("h" \o ToString(i), Customer, Business,
                                        "a" \o ToString(i), t)
          [] kind = "blank" -> [base EXCEPT !.content_text = ""]
          [] kind = "status" -> [base EXCEPT !.event_type = "MtStatus"]
          [] OTHER -> [base EXCEPT !.from_number = OtherCustomer]

Stored(n, p) == [i \in 1..n |-> StoredRow(i, n, p)]

DocChunk(id, text, e) == [id |-> id, chunk |-> text, embedding |-> e]

SampleDocuments ==
    [f \in {"f1", "f2", "f3", "f4"} |->
        CASE f = "f1" -> <<DocChunk("d1", "alpha", 0), DocChunk("d2", "beta", 2)>>
          [] f = "f2" -> <<DocChunk("d3", "gamma", 1)>>
          [] OTHER -> <<>>]

\* A chunk as processProduct, processPage and processCollection pass it to storeChunk
ChunkData(type, contentId, title, text) ==
    [content_type |-> type, content_id |-> contentId, title |-> title, text |-> text,
     metadata |-> [handle |-> contentId]]

\* The row storeChunk inserts; id is the key the table assigns, run names the
\* run that inserted the row (0: an ingestion that ended before any run began)
\* and is read by no code
ShopifyRow(storeId, chunkData, embedding, run) ==
    [id |-> storeId \o "/" \o chunkData.content_id \o "/" \o chunkData.text,
     store_id |-> storeId, content_type |-> chunkData.content_type,
     content_id |-> chunkData.content_id, title |-> chunkData.title,
     chunk_text |-> chunkData.text, embedding |-> embedding,
     metadata |-> chunkData.metadata, run |-> run]

SampleShopifyChunks ==
    <<ShopifyRow("s1", ChunkData("product", "p1", "Blue Mug", "Product: Blue Mug"),
                 EmbedValue("Product: Blue Mug"), 0),
      ShopifyRow("s2", ChunkData("page", "g1", "About", "Page: About"),
                 EmbedValue("Page: About"), 0)>>

----------------------------------------------------------------------------
(* generateAutoResponse *)

Call(op) == calls' = calls \cup {op}

\* return <r>
Return(r) ==
    /\ result' = r
    /\ nReturns' = nReturns + 1
    /\ pc' = "done"
    /\ escaped' = escaped

\* Variant of the catch block that rethrows
CatchRethrows(message) ==
    /\ escaped' = TRUE
    /\ pc' = "done"
    /\ UNCHANGED <<result, nReturns>>

\* catch (error) { return { success: false, error: error.message } }
Catch(message) == Return([success |-> FALSE, error |-> message])

\* What no step of generateAutoResponse assigns
Frame == UNCHANGED <<args, store0, now, invocations, budget, documents, shopify_chunks,
                    retr, ingestVars>>
RetryFrame == UNCHANGED <<attempt, queryCalls, waits, queryResult>>
StoreFrame == UNCHANGED <<whatsapp_messages, sends>>

\* Execution goes on to the next await
Continue(next) ==
    /\ pc' = next
    /\ UNCHANGED <<result, nReturns, escaped>>

\* An awaited call that rejects inside the try block
Throws(op) ==
    /\ Call(op)
    /\ Catch("exception in " \o op)
    /\ UNCHANGED loc
    /\ Frame /\ RetryFrame /\ StoreFrame

\* The inbound-message handler stores the message (once per message id) and
\* calls generateAutoResponse(fromNumber, toNumber, messageText, messageId)
Receive ==
    /\ pc \in {"idle", "done"}
    /\ budget > 0
    /\ \E id \in MessageIds, t \in {now, Min(now + 1, MaxClock)} :
         LET stored == InsertRow(whatsapp_messages,
                                 InboundRow(id, Customer, Business, TextOf(id), t))
         IN  /\ now' = t
             /\ whatsapp_messages' = stored
             /\ store0' = stored
             /\ args' = [fromNumber |-> Customer, toNumber |-> Business,
                         messageText |-> TextOf(id), messageId |-> id]
    /\ invocations' = invocations + 1
    /\ budget' = budget - 1
    /\ pc' = "getDataSource"
    /\ loc' = InitLoc
    /\ attempt' = 0
    /\ queryCalls' = 0
    /\ waits' = <<>>
    /\ queryResult' = NoResult
    /\ result' = NoResult
    /\ nReturns' = 0
    /\ calls' = {}
    /\ sends' = <<>>
    /\ escaped' = FALSE
    /\ UNCHANGED <<documents, shopify_chunks, retr, ingestVars>>

\* Variant without the early return for a missing data source
GetDataSourceFallsThrough ==
    /\ pc = "getDataSource"
    /\ \/ Throws("getDataSourceForPhone")
       \/ \E ds \in DataSources \cup {""} :
             /\ Call("getDataSourceForPhone")
             /\ loc' = [loc EXCEPT !.dataSource = ds]
             /\ attempt' = 1
             /\ Continue("queryFn")
             /\ UNCHANGED <<queryCalls, waits, queryResult>>
             /\ Frame /\ StoreFrame

\* 1. const dataSource = await getDataSourceForPhone(toNumber)
GetDataSource ==
    /\ pc = "getDataSource"
    /\ \/ Throws("getDataSourceForPhone")
       \/ /\ Call("getDataSourceForPhone")
          /\ Return([success |-> FALSE, noDocuments |-> TRUE,
                     error |-> "No data source mapped to this business number"])
          /\ UNCHANGED loc
          /\ Frame /\ RetryFrame /\ StoreFrame
       \/ \E ds \in DataSources :
             /\ Call("getDataSourceForPhone")
             /\ loc' = [loc EXCEPT !.dataSource = ds]
             /\ attempt' = 1
             /\ Continue("queryFn")
             /\ UNCHANGED <<queryCalls, waits, queryResult>>
             /\ Frame /\ StoreFrame

\* Variant of the loop that returns the result of the last attempt itself
QueryFnReturnsLastAttempt ==
    /\ pc = "queryFn"
    /\ attempt <= maxRetries
    /\ \/ Throws("queryFn")
       \/ \E res \in QueryResults :
             /\ Call("queryFn")
             /\ queryCalls' = queryCalls + 1
             /\ UNCHANGED loc
             /\ Frame /\ StoreFrame
             /\ IF ~res.error \/ attempt = maxRetries
                THEN /\ queryResult' = res
                     /\ Continue("checkMapping")
                     /\ UNCHANGED <<attempt, waits>>
                ELSE /\ waits' = Append(waits, attempt * 1000)
                     /\ Continue("delay")
                     /\ UNCHANGED <<attempt, queryResult>>

\* retrySupabaseQuery, loop body: const result = await queryFn()
QueryFn ==
    /\ pc = "queryFn"
    /\ attempt <= maxRetries
    /\ \/ Throws("queryFn")
       \/ \E res \in QueryResults :
             /\ Call("queryFn")
             /\ queryCalls' = queryCalls + 1
             /\ UNCHANGED loc
             /\ Frame /\ StoreFrame
             /\ IF ~res.error
                THEN /\ queryResult' = res                  \* return result
                     /\ Continue("checkMapping")
                     /\ UNCHANGED <<attempt, waits>>
                ELSE IF attempt < maxRetries
                THEN /\ waits' = Append(waits, attempt * 1000)
                     /\ Continue("delay")
                     /\ UNCHANGED <<attempt, queryResult>>
                ELSE /\ attempt' = attempt + 1              \* the loop ends
                     /\ Continue("lastQueryFn")
                     /\ UNCHANGED <<waits, queryResult>>

\* await new Promise(resolve => setTimeout(resolve, attempt * 1000)); attempt++
Delay ==
    /\ pc = "delay"
    /\ attempt' = attempt + 1
    /\ Continue("queryFn")
    /\ UNCHANGED <<loc, calls, queryCalls, waits, queryResult>>
    /\ Frame /\ StoreFrame

\* retrySupabaseQuery after the loop: return await queryFn()
LastQueryFn ==
    /\ pc = "lastQueryFn"
    /\ \/ Throws("queryFn")
       \/ \E res \in QueryResults :
             /\ Call("queryFn")
             /\ queryCalls' = queryCalls + 1
             /\ queryResult' = res
             /\ Continue("checkMapping")
             /\ UNCHANGED <<loc, attempt, waits>>
             /\ Frame /\ StoreFrame

\* Variant without the check of the credentials
CheckMappingSkipsCredentials ==
    /\ pc = "checkMapping"
    /\ IF queryResult.error \/ Len(queryResult.data) = 0
       THEN /\ Return([success |-> FALSE, error |-> "Failed to fetch phone mapping details"])
            /\ UNCHANGED loc
       ELSE /\ loc' = [loc EXCEPT
                        !.customSystemPrompt = queryResult.data[1].system_prompt,
                        !.auth_token = queryResult.data[1].auth_token,
                        !.origin = queryResult.data[1].origin]
            /\ Continue("embed")
    /\ attempt' = 0
    /\ queryCalls' = 0
    /\ waits' = <<>>
    /\ queryResult' = NoResult
    /\ UNCHANGED calls
    /\ Frame /\ StoreFrame

\* Lines 85-111: what generateAutoResponse does with the value of the retry
\* wrapper, whose own variables are gone by then
CheckMapping ==
    /\ pc = "checkMapping"
    /\ IF queryResult.error \/ Len(queryResult.data) = 0
       THEN /\ Return([success |-> FALSE, error |-> "Failed to fetch phone mapping details"])
            /\ UNCHANGED loc
       ELSE /\ loc' = [loc EXCEPT
                        !.customSystemPrompt = queryResult.data[1].system_prompt,
                        !.auth_token = queryResult.data[1].auth_token,
                        !.origin = queryResult.data[1].origin]
            /\ IF queryResult.data[1].auth_token = "" \/ queryResult.data[1].origin = ""
               THEN Return([success |-> FALSE, error |->
                     "No WhatsApp API credentials found. Please set credentials in the Configuration tab."])
               ELSE Continue("embed")
    /\ attempt' = 0
    /\ queryCalls' = 0
    /\ waits' = <<>>
    /\ queryResult' = NoResult
    /\ UNCHANGED calls
    /\ Frame /\ StoreFrame

\* Variant that marks the message attempted when the embedding failed
EmbedMarksAttempted ==
    /\ pc = "embed"
    /\ \/ Throws("embedText")
       \/ /\ Call("embedText")
          /\ Return([success |-> FALSE,
                     error |-> "Failed to generate embedding for message"])
          /\ whatsapp_messages' = UpdateSent(whatsapp_messages, args.messageId, FALSE, now)
          /\ UNCHANGED <<loc, sends>>
          /\ Frame /\ RetryFrame
       \/ /\ Call("embedText")
          /\ loc' = [loc EXCEPT !.queryEmbedding = EmbedValue(args.messageText)]
          /\ Continue(IF loc.dataSource = "shopify" THEN "getShopifyStore" ELSE "getFiles")
          /\ Frame /\ RetryFrame /\ StoreFrame

\* 2. const queryEmbedding = await embedText(messageText)
Embed ==
    /\ pc = "embed"
    /\ \/ Throws("embedText")
       \/ /\ Call("embedText")
          /\ Return([success |-> FALSE,
                     error |-> "Failed to generate embedding for message"])
          /\ UNCHANGED loc
          /\ Frame /\ RetryFrame /\ StoreFrame
       \/ /\ Call("embedText")
          /\ loc' = [loc EXCEPT !.queryEmbedding = EmbedValue(args.messageText)]
          /\ Continue(IF loc.dataSource = "shopify" THEN "getShopifyStore" ELSE "getFiles")
          /\ Frame /\ RetryFrame /\ StoreFrame

\* 3. shopify: const shopifyStoreId = await getShopifyStoreForPhoneNumber(toNumber)
GetShopifyStore ==
    /\ pc = "getShopifyStore"
    /\ \/ Throws("getShopifyStoreForPhoneNumber")
       \/ /\ Call("getShopifyStoreForPhoneNumber")
          /\ Return([success |-> FALSE, noDocuments |-> TRUE,
                     error |-> "No Shopify store mapped to this business number"])
          /\ UNCHANGED loc
          /\ Frame /\ RetryFrame /\ StoreFrame
       \/ \E id \in StoreIds :
             /\ Call("getShopifyStoreForPhoneNumber")
             /\ loc' = [loc EXCEPT !.storeId = id]
             /\ Continue("retrieveShopify")
             /\ Frame /\ RetryFrame /\ StoreFrame

\* matches = await retrieveRelevantShopifyChunks(queryEmbedding, shopifyStoreId, 5)
RetrieveShopify ==
    /\ pc = "retrieveShopify"
    /\ \/ Throws("retrieveRelevantShopifyChunks")
       \/ /\ Call("retrieveRelevantShopifyChunks")
          /\ loc' = [loc EXCEPT !.matches =
                        RetrieveRelevantShopifyChunks(shopify_chunks, loc.queryEmbedding,
                                                      loc.storeId, RetrievalLimit)]
          /\ Continue("history")
          /\ Frame /\ RetryFrame /\ StoreFrame

\* Variant whose no-documents result lacks the noDocuments flag
GetFilesNoFlag ==
    /\ pc = "getFiles"
    /\ \/ Throws("getFilesForPhoneNumber")
       \/ \E ids \in FileIdLists :
             /\ Call("getFilesForPhoneNumber")
             /\ loc' = [loc EXCEPT !.fileIds = ids]
             /\ IF Len(ids) = 0
                THEN Return([success |-> FALSE,
                             error |-> "No documents mapped to this business number"])
                ELSE Continue("retrieveFiles")
             /\ Frame /\ RetryFrame /\ StoreFrame

\* 3. files: const fileIds = await getFilesForPhoneNumber(toNumber)
GetFiles ==
    /\ pc = "getFiles"
    /\ \/ Throws("getFilesForPhoneNumber")
       \/ \E ids \in FileIdLists :
             /\ Call("getFilesForPhoneNumber")
             /\ loc' = [loc EXCEPT !.fileIds = ids]
             /\ IF Len(ids) = 0
                THEN Return([success |-> FALSE, noDocuments |-> TRUE,
                             error |-> "No documents mapped to this business number"])
                ELSE Continue("retrieveFiles")
             /\ Frame /\ RetryFrame /\ StoreFrame

\* Variant that treats an empty retrieval result as a failure
RetrieveFilesFailsOnEmpty ==
    /\ pc = "retrieveFiles"
    /\ \/ Throws("retrieveRelevantChunksFromFiles")
       \/ LET matches == RetrieveRelevantChunksFromFiles(documents, loc.queryEmbedding,
                                                         loc.fileIds, RetrievalLimit)
          IN  /\ Call("retrieveRelevantChunksFromFiles")
              /\ loc' = [loc EXCEPT !.matches = matches]
              /\ IF matches = <<>>
                 THEN Return([success |-> FALSE, noDocuments |-> TRUE,
                              error |-> "No documents mapped to this business number"])
                 ELSE Continue("history")
              /\ Frame /\ RetryFrame /\ StoreFrame

\* matches = await retrieveRelevantChunksFromFiles(queryEmbedding, fileIds, 5)
RetrieveFiles ==
    /\ pc = "retrieveFiles"
    /\ \/ Throws("retrieveRelevantChunksFromFiles")
       \/ /\ Call("retrieveRelevantChunksFromFiles")
          /\ loc' = [loc EXCEPT !.matches =
                        RetrieveRelevantChunksFromFiles(documents, loc.queryEmbedding,
                                                        loc.fileIds, RetrievalLimit)]
          /\ Continue("history")
          /\ Frame /\ RetryFrame /\ StoreFrame

\* 4.-5. the history query, then history and messages are built (lines 160-216)
History ==
    /\ pc = "history"
    /\ \/ Throws("historyQuery")
       \/ \E historyRows \in {<<>>, HistoryQuery(whatsapp_messages, args.fromNumber)} :
             LET history == BuildHistory(historyRows)
             IN  /\ Call("historyQuery")
                 /\ loc' = [loc EXCEPT
                       !.history = history,
                       !.messages = ComposeMessages(
                            SystemPrompt(loc.customSystemPrompt, loc.dataSource),
                            JoinChunks(loc.matches), history, args.messageText)]
                 /\ Continue("llm")
                 /\ Frame /\ RetryFrame /\ StoreFrame

\* const completion = await groq.chat.completions.create({ messages, ... })
Llm ==
    /\ pc = "llm"
    /\ \/ Throws("groq")
       \/ \E response \in {"", ReplyText} :
             /\ Call("groq")
             /\ loc' = [loc EXCEPT !.response = response]
             /\ IF response = ""
                THEN Return([success |-> FALSE, error |-> "No response generated from LLM"])
                ELSE Continue("send")
             /\ Frame /\ RetryFrame /\ StoreFrame

\* Variant that stores the reply whatever the send call reported
SendGoesOnAfterFailure ==
    /\ pc = "send"
    /\ sends' = Append(sends, [to |-> args.fromNumber, text |-> loc.response,
                               auth_token |-> loc.auth_token, origin |-> loc.origin])
    /\ Call("sendWhatsAppMessage")
    /\ \/ /\ Catch("exception in sendWhatsAppMessage")
          /\ UNCHANGED loc
       \/ /\ loc' = [loc EXCEPT !.sendResult = "failure"]
          /\ Continue("insertOutbound")
       \/ /\ loc' = [loc EXCEPT !.sendResult = "success"]
          /\ Continue("insertOutbound")
    /\ UNCHANGED whatsapp_messages
    /\ Frame /\ RetryFrame

\* 6. const sendResult = await sendWhatsAppMessage(fromNumber, response, auth_token, origin)
Send ==
    /\ pc = "send"
    /\ sends' = Append(sends, [to |-> args.fromNumber, text |-> loc.response,
                               auth_token |-> loc.auth_token, origin |-> loc.origin])
    /\ Call("sendWhatsAppMessage")
    /\ \/ /\ Catch("exception in sendWhatsAppMessage")
          /\ UNCHANGED loc
       \/ /\ loc' = [loc EXCEPT !.sendResult = "failure"]     \* !sendResult.success
          /\ Continue("markAttempted")
       \/ /\ loc' = [loc EXCEPT !.sendResult = "success"]
          /\ Continue("insertOutbound")
    /\ UNCHANGED whatsapp_messages
    /\ Frame /\ RetryFrame

\* send failed: update({ auto_respond_sent: false, response_sent_at }), then return
MarkAttempted ==
    /\ pc = "markAttempted"
    /\ \/ Throws("updateAttempted")
       \/ /\ Call("updateAttempted")
          /\ \/ whatsapp_messages' = UpdateSent(whatsapp_messages, args.messageId, FALSE, now)
             \/ UNCHANGED whatsapp_messages      \* the store reports an error, not read
          /\ Return([success |-> FALSE, response |-> loc.response, sent |-> FALSE,
                     error |-> "Generated response but failed to send"])
          /\ UNCHANGED <<loc, sends>>
          /\ Frame /\ RetryFrame

\* 6.5. insert of the AI response as an MtMessage row
InsertOutbound ==
    /\ pc = "insertOutbound"
    /\ \/ Throws("insertOutbound")
       \/ /\ Call("insertOutbound")
          /\ \/ whatsapp_messages' =
                    InsertRow(whatsapp_messages,
                              OutboundRow(ResponseMessageId(args.messageId, now),
                                          args.fromNumber, args.toNumber, loc.response, now))
             \/ UNCHANGED whatsapp_messages      \* the store reports an error, not read
          /\ Continue("markResponded")
          /\ UNCHANGED <<loc, sends>>
          /\ Frame /\ RetryFrame

\* 7. update({ auto_respond_sent: true, response_sent_at }), then return success
MarkResponded ==
    /\ pc = "markResponded"
    /\ \/ Throws("updateResponded")
       \/ /\ Call("updateResponded")
          /\ \/ whatsapp_messages' = UpdateSent(whatsapp_messages, args.messageId, TRUE, now)
             \/ UNCHANGED whatsapp_messages      \* the store reports an error, not read
          /\ Return([success |-> TRUE, response |-> loc.response, sent |-> TRUE])
          /\ UNCHANGED <<loc, sends>>
          /\ Frame /\ RetryFrame

----------------------------------------------------------------------------
(* The auto responder handling one inbound message *)

Init ==
    /\ pc = "idle"
    /\ args = [fromNumber |-> Customer, toNumber |-> Business,
               messageText |-> "", messageId |-> ""]
    /\ loc = InitLoc
    /\ attempt = 0
    /\ queryCalls = 0
    /\ waits = <<>>
    /\ queryResult = NoResult
    /\ result = NoResult
    /\ escaped = FALSE
    /\ nReturns = 0
    /\ calls = {}
    /\ sends = <<>>
    /\ whatsapp_messages \in {Stored(n, p) : n \in 0..MaxStored, p \in Patterns}
    /\ store0 = whatsapp_messages
    /\ now = 0
    /\ invocations = 0
    /\ budget = 1
    /\ documents = SampleDocuments
    /\ shopify_chunks = SampleShopifyChunks
    /\ retr = RetrIdle
    /\ catalog = "v1"
    /\ runs = [r \in RunIds |-> RunIdle]
    /\ last_synced_at = [o \in Owners |-> None]
    /\ tick = 0

Next ==
    \/ Receive
    \/ GetDataSource
    \/ QueryFn
    \/ Delay
    \/ LastQueryFn
    \/ CheckMapping
    \/ Embed
    \/ GetShopifyStore
    \/ RetrieveShopify
    \/ GetFiles
    \/ RetrieveFiles
    \/ History
    \/ Llm
    \/ Send
    \/ MarkAttempted
    \/ InsertOutbound
    \/ MarkResponded

Spec == Init /\ [][Next]_vars

\* The same handler when a message may be delivered again: an empty or a short
\* stored conversation, and MaxDeliveries deliveries
InitRedelivery ==
    /\ pc = "idle"
    /\ args = [fromNumber |-> Customer, toNumber |-> Business,
               messageText |-> "", messageId |-> ""]
    /\ loc = InitLoc
    /\ attempt = 0
    /\ queryCalls = 0
    /\ waits = <<>>
    /\ queryResult = NoResult
    /\ result = NoResult
    /\ escaped = FALSE
    /\ nReturns = 0
    /\ calls = {}
    /\ sends = <<>>
    /\ whatsapp_messages \in {Stored(n, "dialogue") : n \in {0, 2}}
    /\ store0 = whatsapp_messages
    /\ now = 0
    /\ invocations = 0
    /\ budget = MaxDeliveries
    /\ documents = SampleDocuments
    /\ shopify_chunks = SampleShopifyChunks
    /\ retr = RetrIdle
    /\ catalog = "v1"
    /\ runs = [r \in RunIds |-> RunIdle]
    /\ last_synced_at = [o \in Owners |-> None]
    /\ tick = 0

SpecRedelivery == InitRedelivery /\ [][Next]_vars

----------------------------------------------------------------------------
(* Properties of generateAutoResponse *)

ErrNoDataSource == "No data source mapped to this business number"
ErrMappingFetch == "Failed to fetch phone mapping details"
ErrNoCredentials ==
    "No WhatsApp API credentials found. Please set credentials in the Configuration tab."
ErrEmbedding == "Failed to generate embedding for message"
ErrNoStore == "No Shopify store mapped to this business number"
ErrNoDocuments == "No documents mapped to this business number"
ErrNoResponse == "No response generated from LLM"
ErrNotSent == "Generated response but failed to send"

Returned == pc = "done"
Failed(e) == Returned /\ "error" \in DOMAIN result /\ result.error = e
HasNoDocumentsFlag == "noDocuments" \in DOMAIN result /\ result.noDocuments = TRUE
WriteCalls == {"updateAttempted", "insertOutbound", "updateResponded"}

\* The rows of the table that carry the inbound message id
InboundRows(id) ==
    {i \in 1..Len(whatsapp_messages) : whatsapp_messages[i].message_id = id}

\* The outbound turns stored for an inbound message id
OutboundTurns(id) ==
    {i \in 1..Len(whatsapp_messages) :
        /\ whatsapp_messages[i].event_type = "MtMessage"
        /\ \E t \in 0..MaxClock :
              whatsapp_messages[i].message_id = ResponseMessageId(id, t)}

\* C3: every call of generateAutoResponse ends with exactly one structured
\* result (a success flag, optional response, error, noDocuments, sent) and no
\* exception leaves it, whichever external call fails or throws.
C3_StructuredResult ==
    /\ ~escaped
    /\ Returned =>
          /\ nReturns = 1
          /\ "success" \in DOMAIN result
          /\ DOMAIN result \subseteq {"success", "response", "error", "noDocuments", "sent"}
          /\ result.success \in BOOLEAN
          /\ ~result.success => "error" \in DOMAIN result
    /\ ~Returned => nReturns = 0 /\ result = NoResult

\* A store write of step 7 threw and the call still returned a result
C3_Witness == Failed("exception in updateResponded")

\* C4: a returned success (success = true, sent = true) means the outbound turn
\* (MtMessage, content = the reply) is stored and the inbound row is marked
\* responded with a timestamp, also when a step-9 write reported an error.
C4_SuccessMeansPersisted ==
    (Returned /\ result.success) =>
        /\ result.sent = TRUE
        /\ \E i \in OutboundTurns(args.messageId) :
              /\ whatsapp_messages[i].content_text = result.response
              /\ whatsapp_messages[i].from_number = args.toNumber
              /\ whatsapp_messages[i].to_number = args.fromNumber
        /\ \A i \in InboundRows(args.messageId) :
              /\ whatsapp_messages[i].auto_respond_sent = <<TRUE>>
              /\ whatsapp_messages[i].response_sent_at # None

\* C5: when the send call reports failure, the result is success = false,
\* sent = false with the generated text, the inbound row is attempted-but-unsent
\* (auto_respond_sent = false with a timestamp) and no outbound turn is stored.
C5_DeliveryFailure ==
    (Returned /\ loc.sendResult = "failure") =>
        /\ ~result.success
        /\ "sent" \in DOMAIN result /\ result.sent = FALSE
        /\ "response" \in DOMAIN result /\ result.response = loc.response
        /\ \A i \in InboundRows(args.messageId) :
              /\ whatsapp_messages[i].auto_respond_sent = <<FALSE>>
              /\ whatsapp_messages[i].response_sent_at # None
        /\ OutboundTurns(args.messageId) = {}

\* C6: an embedding failure (null) or an empty completion ends the call with a
\* failure, without any write to whatsapp_messages and without any send call.
C6_UpstreamErrorsWriteNothing ==
    (Failed(ErrEmbedding) \/ Failed(ErrNoResponse)) =>
        /\ ~result.success
        /\ whatsapp_messages = store0
        /\ calls \cap WriteCalls = {}
        /\ sends = <<>>
        /\ "sendWhatsAppMessage" \notin calls

\* The completion was empty, with a stored conversation to be preserved
C6_Witness == Failed(ErrNoResponse) /\ Len(store0) > 1 /\ "groq" \in calls

ConfigurationErrors == {ErrNoDataSource, ErrNoCredentials, ErrNoStore, ErrNoDocuments}
FlaggedErrors == {ErrNoDataSource, ErrNoStore, ErrNoDocuments}

\* C7 as stated: every configuration-error result (no data source, no
\* credentials, no store, no documents) carries noDocuments = true and no other
\* failure carries it.
C7_FlagMarksConfigurationErrors ==
    (Returned /\ ~result.success) =>
        (HasNoDocumentsFlag <=> result.error \in ConfigurationErrors)

\* C7 amended: noDocuments = true is carried by exactly the no-data-source,
\* no-store and no-documents results; the no-credentials result and every other
\* failure (mapping fetch, embedding, empty completion, unsent, exception) lack it.
C7_FlagMarksMissingSources ==
    /\ (Returned /\ ~result.success) =>
          (HasNoDocumentsFlag <=> result.error \in FlaggedErrors)
    /\ (Returned /\ result.success) => "noDocuments" \notin DOMAIN result

\* The mapping row lacked a credential and the result carries no flag
C7_Witness == Failed(ErrNoCredentials) /\ ~HasNoDocumentsFlag

\* getDataSourceForPhone answered null for the current call
NoDataSource ==
    /\ "getDataSourceForPhone" \in calls
    /\ loc.dataSource = ""
    /\ ~Failed("exception in getDataSourceForPhone")

\* C8: with no data-source mapping the call returns success = false with
\* noDocuments = true, writes nothing to the store and issues no mapping read,
\* embedding, retrieval, LLM or send call.
C8_NoDataSourceDoesNothing ==
    NoDataSource =>
        /\ Failed(ErrNoDataSource)
        /\ ~result.success
        /\ HasNoDocumentsFlag
        /\ whatsapp_messages = store0
        /\ calls = {"getDataSourceForPhone"}
        /\ queryCalls = 0
        /\ sends = <<>>

\* No data source, with a stored conversation to be preserved
C8_Witness == NoDataSource /\ Returned /\ Len(store0) > 1

\* The current call handled a message that an earlier call had answered in
\* full (reply sent, outbound turn stored, inbound row marked responded)
RedeliveryHandled ==
    /\ Returned /\ result.success
    /\ \E i \in 1..Len(store0) :
          /\ store0[i].message_id = args.messageId
          /\ store0[i].auto_respond_sent = <<TRUE>>
    /\ \E i \in 1..Len(store0), t \in 0..MaxClock :
          store0[i].message_id = ResponseMessageId(args.messageId, t)

\* C9: handling the same inbound message id twice, every external call
\* succeeding, leaves at most one outbound turn stored for that message.
C9_OneOutboundTurnPerMessage ==
    RedeliveryHandled => Cardinality(OutboundTurns(args.messageId)) <= 1

\* The history turns of the prompt: between the system message and the new turn
PromptHistory ==
    IF Len(loc.messages) < 2 THEN <<>>
    ELSE SubSeq(loc.messages, 2, Len(loc.messages) - 1)

\* C10: the prompt holds the system message, at most 10 history turns in
\* ascending receipt order, each with text and with role user for MoMessage and
\* assistant for MtMessage, and then the new user turn.
C10_HistoryBoundedAndOrdered ==
    loc.messages # <<>> =>
        LET h == PromptHistory
        IN  /\ loc.messages[1].role = "system"
            /\ loc.messages[Len(loc.messages)] =
                  [role |-> "user", content |-> args.messageText]
            /\ Len(h) <= 10
            /\ \A i, j \in 1..Len(h) :
                  i < j => h[i].row.received_at <= h[j].row.received_at
            /\ \A i \in 1..Len(h) :
                  /\ h[i].content # ""
                  /\ h[i].content = h[i].row.content_text
                  /\ \/ h[i].row.event_type = "MoMessage" /\ h[i].role = "user"
                     \/ h[i].row.event_type = "MtMessage" /\ h[i].role = "assistant"
                  /\ \E k \in 1..Len(store0) : store0[k] = h[i].row

\* More qualifying turns than the window, stored in the reverse of receipt order
C10_Witness ==
    /\ pc = "llm"
    /\ Len(loc.history) > 10
    /\ Len(PromptHistory) = 10
    /\ Len(store0) > 1 /\ store0[1].received_at > store0[2].received_at

\* The stored turns of the conversation with the counterpart that qualify for
\* the prompt: with text and with a recognized direction
QualifyingTurns ==
    {k \in 1..Len(whatsapp_messages) :
        /\ \/ whatsapp_messages[k].from_number = args.fromNumber
           \/ whatsapp_messages[k].to_number = args.fromNumber
        /\ whatsapp_messages[k].content_text # ""
        /\ whatsapp_messages[k].event_type \in {"MoMessage", "MtMessage"}}

\* The stored turns that are in the prompt
IncludedTurns ==
    {k \in QualifyingTurns :
        \E i \in 1..Len(PromptHistory) : PromptHistory[i].row = whatsapp_messages[k]}

\* C11: history recency. When the prompt is composed from a history read that
\* returned rows, no qualifying stored turn that is left out of the prompt was
\* received later than a turn that is included.
C11_HistoryMostRecent ==
    (pc = "llm" /\ PromptHistory # <<>>) =>
        \A out \in QualifyingTurns \ IncludedTurns : \A in \in IncludedTurns :
            whatsapp_messages[out].received_at <= whatsapp_messages[in].received_at

\* The source the retrieval step reads holds no chunk
ZeroChunks ==
    IF pc = "retrieveShopify"
    THEN \A i \in 1..Len(shopify_chunks) : shopify_chunks[i].store_id # loc.storeId
    ELSE \A f \in Range(loc.fileIds) : documents[f] = <<>>

\* The retrieval call was rejected by the store it reads
RetrievalRejected ==
    \/ Failed("exception in retrieveRelevantShopifyChunks")
    \/ Failed("exception in retrieveRelevantChunksFromFiles")

\* C15: retrieval over a source without chunks returns the empty sequence, for
\* one file, several files, no file, and a store; the emptiness is no failure:
\* unless the store rejects the call itself, generateAutoResponse goes on to
\* the history and the LLM call, and its prompt carries the fallback literal as
\* CONTEXT.
C15_EmptyRetrievalIsNoError ==
    /\ [][(pc \in {"retrieveFiles", "retrieveShopify"} /\ pc' # pc /\ ZeroChunks) =>
            \/ pc' = "history" /\ loc'.matches = <<>>
            \/ RetrievalRejected']_vars
    /\ [](RetrieveRelevantChunksFromFiles(documents, loc.queryEmbedding, <<>>,
                                          RetrievalLimit) = <<>>)
    /\ []((pc = "llm" /\ loc.matches = <<>>) =>
            loc.messages[1] =
                [role |-> "system",
                 content |-> SystemPrompt(loc.customSystemPrompt, loc.dataSource)
                             \o "\n\nCONTEXT:\n" \o NoContextLiteral])

\* Two files without chunks were searched and the LLM call is next
C15_Witness ==
    /\ pc = "llm"
    /\ Len(loc.fileIds) = 2
    /\ "retrieveRelevantChunksFromFiles" \in calls
    /\ loc.matches = <<>>
    /\ loc.messages # <<>>

\* The delays after the failed attempts 1..k
DelaysUpTo(k) == [i \in 1..k |-> i * 1000]

DownstreamCalls ==
    {"embedText", "getShopifyStoreForPhoneNumber", "getFilesForPhoneNumber",
     "retrieveRelevantShopifyChunks", "retrieveRelevantChunksFromFiles",
     "historyQuery", "groq", "sendWhatsAppMessage"} \cup WriteCalls

\* C19: the tenant-configuration step. A wrapper result with an error or
\* without rows ends the call in the mapping-fetch failure; a first row without
\* auth token or without origin ends it in the no-credentials failure; otherwise
\* the call goes on to the embedding. After either failure no embedding,
\* retrieval, history, LLM, send or store-write call has been made.
C19_TenantConfiguration ==
    /\ [][(pc = "checkMapping" /\ pc' # pc) =>
            IF queryResult.error \/ Len(queryResult.data) = 0
            THEN Failed(ErrMappingFetch)'
            ELSE IF queryResult.data[1].auth_token = "" \/ queryResult.data[1].origin = ""
            THEN Failed(ErrNoCredentials)'
            ELSE pc' = "embed" /\ loc'.auth_token # "" /\ loc'.origin # ""]_vars
    /\ []((Failed(ErrMappingFetch) \/ Failed(ErrNoCredentials)) =>
            /\ ~result.success
            /\ calls \cap DownstreamCalls = {}
            /\ whatsapp_messages = store0
            /\ sends = <<>>)

\* The mapping row was read at the first attempt and has a token but no origin
C19_Witness ==
    /\ Failed(ErrNoCredentials)
    /\ loc.auth_token # "" /\ loc.origin = ""
    /\ "queryFn" \in calls

\* The inbound row of the handled message is marked responded
MarkedResponded ==
    \E i \in InboundRows(args.messageId) :
        whatsapp_messages[i].auto_respond_sent = <<TRUE>>

\* C22: send discipline. In one call of generateAutoResponse the sender is
\* called at most once, only after the LLM returned a non-empty text, with that
\* text and with the auth token and origin read from the first mapping row; the
\* insert of the outbound turn and the responded = true update happen only
\* after the send call reported success; sent = true is returned only then.
C22_SendDiscipline ==
    /\ [](/\ Len(sends) <= 1
          /\ (sends = <<>>) = ("sendWhatsAppMessage" \notin calls)
          /\ \A i \in 1..Len(sends) :
                /\ "groq" \in calls
                /\ loc.response # "" /\ sends[i].text = loc.response
                /\ sends[i].to = args.fromNumber
                /\ sends[i].auth_token = loc.auth_token /\ loc.auth_token # ""
                /\ sends[i].origin = loc.origin /\ loc.origin # ""
          /\ ("insertOutbound" \in calls \/ "updateResponded" \in calls
                 \/ OutboundTurns(args.messageId) # {} \/ MarkedResponded) =>
                /\ Len(sends) = 1
                /\ loc.sendResult = "success"
          /\ (Returned /\ "sent" \in DOMAIN result /\ result.sent = TRUE) =>
                /\ Len(sends) = 1
                /\ loc.sendResult = "success")
    /\ [][(pc = "checkMapping" /\ pc' = "embed") =>
            /\ loc'.auth_token = queryResult.data[1].auth_token
            /\ loc'.origin = queryResult.data[1].origin]_vars
    /\ [][(pc \notin {"checkMapping", "idle", "done"}) =>
            /\ loc'.auth_token = loc.auth_token
            /\ loc'.origin = loc.origin]_vars

\* The send call reported failure after a reply was generated: one send with
\* the mapping's credentials, no outbound turn, the row not marked responded
C22_Witness ==
    /\ Failed(ErrNotSent)
    /\ Len(sends) = 1 /\ sends[1].auth_token = "tok" /\ sends[1].origin = "org"
    /\ sends[1].text = ReplyText
    /\ "updateAttempted" \in calls
    /\ OutboundTurns(args.messageId) = {}
    /\ ~MarkedResponded
    /\ result.sent = FALSE

----------------------------------------------------------------------------
(* retrieveRelevantChunksFromFiles, one rpc per action, over any small documents *)

RetrFiles == {"f1", "f2"}
RetrFileIdLists == {<<>>, <<"f1">>, <<"f1", "f2">>, <<"f1", "f2", "f1">>}
Queries == {0, 1}

RECURSIVE SeqsUpTo(_, _)
SeqsUpTo(S, n) ==
    IF n = 0 THEN {<<>>}
    ELSE SeqsUpTo(S, n - 1) \cup {Append(q, x) : q \in SeqsUpTo(S, n - 1), x \in S}

\* The chunks of file f whose embeddings are es, in table order
FileChunks(f, es) == [i \in 1..Len(es) |-> DocChunk(f \o "-" \o ToString(i), "text", es[i])]

\* Variant that issues the rpc calls of all files at once
RetrStartAllAtOnce ==
    /\ retr.pc = "idle"
    /\ \E fileIds \in RetrFileIdLists, limit \in 1..MaxLimit, q \in Queries :
         retr' = [RetrIdle EXCEPT
                    !.fileIds = fileIds, !.limit = limit, !.query = q, !.index = 1,
                    !.rpcCalls = fileIds,
                    !.inFlight = Len(fileIds),
                    !.pc = IF Len(fileIds) = 0 THEN "returned"
                           ELSE IF Len(fileIds) = 1 THEN "single" ELSE "loop"]
    /\ UNCHANGED <<respVars, documents, shopify_chunks, ingestVars>>

\* retrieveRelevantChunksFromFiles(queryEmbedding, fileIds, limit) is called and
\* runs to its first await: the rpc for the first file is issued
RetrStart ==
    /\ retr.pc = "idle"
    /\ \E fileIds \in RetrFileIdLists, limit \in 1..MaxLimit, q \in Queries :
         retr' = [RetrIdle EXCEPT
                    !.fileIds = fileIds, !.limit = limit, !.query = q, !.index = 1,
                    !.rpcCalls = IF Len(fileIds) = 0 THEN <<>> ELSE <<fileIds[1]>>,
                    !.inFlight = IF Len(fileIds) = 0 THEN 0 ELSE 1,
                    !.pc = IF Len(fileIds) = 0 THEN "returned"      \* return []
                           ELSE IF Len(fileIds) = 1 THEN "single" ELSE "loop"]
    /\ UNCHANGED <<respVars, documents, shopify_chunks, ingestVars>>

\* fileIds.length === 1: return retrieveRelevantChunks(queryEmbedding, fileIds[0], limit)
RetrSingle ==
    /\ retr.pc = "single"
    /\ \/ retr' = [retr EXCEPT !.pc = "threw",                  \* throw error
                                !.inFlight = @ - 1]
       \/ retr' = [retr EXCEPT
                     !.pc = "returned",
                     !.inFlight = @ - 1,
                     !.result = RetrieveRelevantChunks(documents, retr.query,
                                                       retr.fileIds[1], retr.limit)]
    /\ UNCHANGED <<respVars, documents, shopify_chunks, ingestVars>>

\* for (const fileId of fileIds) { chunks = await retrieveRelevantChunks(...);
\* allChunks.push(...) }: the rpc of the current file returns, and either the
\* rpc of the next file is issued or, after the last file, the sort and the
\* slice are done
RetrLoop ==
    /\ retr.pc = "loop"
    /\ retr.index <= Len(retr.fileIds)
    /\ LET fileId == retr.fileIds[retr.index]
           chunks == RetrieveRelevantChunks(documents, retr.query, fileId, retr.limit)
           all == PushChunks(retr.allChunks, chunks, fileId)
           last == retr.index = Len(retr.fileIds)
       IN  \/ retr' = [retr EXCEPT !.pc = "threw", !.inFlight = @ - 1]
           \/ retr' = [retr EXCEPT
                         !.rpcCalls = IF last THEN @ ELSE Append(@, retr.fileIds[retr.index + 1]),
                         !.inFlight = IF last THEN @ - 1 ELSE @,
                         !.allChunks = all,
                         !.index = @ + 1,
                         !.pc = IF retr.index = Len(retr.fileIds) THEN "returned" ELSE "loop",
                         !.result = IF retr.index = Len(retr.fileIds)
                                    THEN SortAndSlice(all, retr.limit) ELSE <<>>]
    /\ UNCHANGED <<respVars, documents, shopify_chunks, ingestVars>>

InitRetrieval ==
    /\ pc = "idle"
    /\ args = [fromNumber |-> Customer, toNumber |-> Business,
               messageText |-> "", messageId |-> ""]
    /\ loc = InitLoc
    /\ attempt = 0
    /\ queryCalls = 0
    /\ waits = <<>>
    /\ queryResult = NoResult
    /\ result = NoResult
    /\ escaped = FALSE
    /\ nReturns = 0
    /\ calls = {}
    /\ sends = <<>>
    /\ whatsapp_messages = <<>>
    /\ store0 = <<>>
    /\ now = 0
    /\ invocations = 0
    /\ budget = 0
    /\ documents \in {[f \in RetrFiles |-> FileChunks(f, es[f])] :
                        es \in [RetrFiles -> SeqsUpTo(0..MaxEmb, MaxChunks)]}
    /\ shopify_chunks = SampleShopifyChunks
    /\ retr = RetrIdle
    /\ catalog = "v1"
    /\ runs = [r \in RunIds |-> RunIdle]
    /\ last_synced_at = [o \in Owners |-> None]
    /\ tick = 0

NextRetrieval ==
    \/ RetrStart
    \/ RetrSingle
    \/ RetrLoop

SpecRetrieval == InitRetrieval /\ [][NextRetrieval]_vars

----------------------------------------------------------------------------
(* Properties of the retrieval layer *)

\* The first element of s with the largest similarity
RECURSIVE BestIndex(_)
BestIndex(s) ==
    IF Len(s) = 1 THEN 1
    ELSE LET b == BestIndex(SubSeq(s, 1, Len(s) - 1))
         IN  IF s[Len(s)].similarity > s[b].similarity THEN Len(s) ELSE b

\* Top k of s by selection: k times the best remaining element
RECURSIVE TopK(_, _)
TopK(s, k) ==
    IF k = 0 \/ s = <<>> THEN <<>>
    ELSE LET b == BestIndex(s)
         IN  <<s[b]>> \o TopK(SubSeq(s, 1, b - 1) \o SubSeq(s, b + 1, Len(s)), k - 1)

\* id, chunk and similarity of each element
Scored(s) == [i \in 1..Len(s) |->
                [id |-> s[i].id, chunk |-> s[i].chunk, similarity |-> s[i].similarity]]

\* The scored chunks of a file, in table order
ScoredFile(f, q) ==
    [i \in 1..Len(documents[f]) |->
        [id |-> documents[f][i].id, chunk |-> documents[f][i].chunk,
         similarity |-> Similarity(documents[f][i].embedding, q)]]

\* The concatenation of the top-k lists of the files, in the order of fileIds
RECURSIVE PartialTops(_, _, _)
PartialTops(fileIds, q, k) ==
    IF fileIds = <<>> THEN <<>>
    ELSE TopK(ScoredFile(Head(fileIds), q), k) \o PartialTops(Tail(fileIds), q, k)

\* C2: the value of retrieveRelevantChunksFromFiles is sorted by descending
\* similarity, has at most limit elements and is the top-limit of the
\* concatenation of the per-source top-limit lists, for 0, 1 or more sources.
C2_MergeThenTruncate ==
    retr.pc = "returned" =>
        /\ Len(retr.result) <= retr.limit
        /\ \A i, j \in 1..Len(retr.result) :
              i < j => retr.result[i].similarity >= retr.result[j].similarity
        /\ Scored(retr.result) =
              TopK(PartialTops(retr.fileIds, retr.query, retr.limit), retr.limit)

\* Three sources holding more chunks than the limit, merged in an order that
\* differs from the order of the calls
C2_Witness ==
    /\ retr.pc = "returned"
    /\ Len(retr.fileIds) = 3
    /\ Len(retr.allChunks) > retr.limit
    /\ Len(retr.result) = retr.limit
    /\ retr.result[1].file_id = "f2"

\* C20: multi-source retrieval issues its per-file calls one at a time in the
\* order of the file-id list. At most one call is outstanding; the calls issued
\* so far are for a prefix of the list, the next one issued only when the one
\* before has returned; a call that throws ends the retrieval with no call for
\* the files after it; a retrieval that returns has called every file once.
C20_SequentialCalls ==
    /\ retr.inFlight <= 1
    /\ retr.rpcCalls = SubSeq(retr.fileIds, 1, Len(retr.rpcCalls))
    /\ retr.pc \in {"single", "loop"} =>
          /\ retr.inFlight = 1
          /\ Len(retr.rpcCalls) = retr.index
    /\ retr.pc = "threw" =>
          /\ retr.inFlight = 0
          /\ Len(retr.rpcCalls) = retr.index
          /\ retr.result = <<>>
    /\ retr.pc = "returned" =>
          /\ retr.inFlight = 0
          /\ retr.rpcCalls = retr.fileIds

\* The call for the second of three files threw: two calls were made, none is
\* outstanding and the third file was never asked
C20_Witness ==
    /\ retr.pc = "threw"
    /\ Len(retr.fileIds) = 3
    /\ retr.rpcCalls = <<"f1", "f2">>
    /\ retr.allChunks # <<>>

----------------------------------------------------------------------------
(* Ingestion: processShopifyStore and ShopifyDataProcessor *)

Kinds == <<"product", "page", "collection">>

ChunkSize == 4           \* the 1500 of chunkText(text, 1500), scaled to the texts here

\* A source record with its title and the text productToText / pageToText /
\* collectionToText formats it into
Record(id, title, text) == [id |-> id, title |-> title, text |-> text]

\* chunkText(text, size): consecutive segments of at most size characters
RECURSIVE ChunkText(_, _)
ChunkText(text, size) ==
    IF Len(text) = 0 THEN <<>>
    ELSE IF Len(text) <= size THEN <<text>>
    ELSE <<SubSeq(text, 1, size)>> \o ChunkText(SubSeq(text, size + 1, Len(text)), size)

\* The catalog of a store: for each kind the pages the source serves, in order
Catalog(version) ==
    IF version = "v1"
    THEN [product |-> << <<Record("p1", "Mug", "mugA    mugA")>>,
                         <<Record("p2", "Cup", "cup")>> >>,
          page |-> << >>,
          collection |-> << >>]
    ELSE IF version = "v2"
    THEN [product |-> << >>,
          page |-> << <<Record("g1", "About", "page")>> >>,
          collection |-> << <<Record("c1", "Sale", "sale")>> >>]
    ELSE [product |-> << <<Record("p1", "Mug", "mugA"), Record("p2", "Cup", "cup")>>,
                         <<Record("p3", "Jar", "jar")>>,
                         <<Record("p4", "Pot", "pot")>> >>,
          page |-> << <<Record("g1", "About", "page")>> >>,
          collection |-> << <<Record("c1", "Sale", "sale")>>,
                            <<Record("c2", "New", "new")>> >>]

\* client.getProducts / getPages / getCollections(pageSize, endCursor): the page
\* after the cursor (0: undefined), whether more pages follow, the new cursor
GetPage(version, kind, endCursor) ==
    LET pages == Catalog(version)[kind]
        n == endCursor + 1
    IN  [items |-> IF n <= Len(pages) THEN pages[n] ELSE <<>>,
         hasNextPage |-> n < Len(pages),
         endCursor |-> n]

\* c.trim().length > 0
NonBlank(c) == \E i \in 1..Len(c) : SubSeq(c, i, i) # " "

\* process<Kind> without the filter on its chunks
RecordChunksUnfiltered(kind, rec) ==
    LET kept == ChunkText(rec.text, ChunkSize)
    IN  [i \in 1..Len(kept) |-> ChunkData(kind, rec.id, rec.title, kept[i])]

\* processProduct / processPage / processCollection: the chunks of one record
\* that are passed to storeChunk, in order
RecordChunks(kind, rec) ==
    LET kept == SelectSeq(ChunkText(rec.text, ChunkSize), NonBlank)
    IN  [i \in 1..Len(kept) |-> ChunkData(kind, rec.id, rec.title, kept[i])]

\* for (const record of page) await this.process<Kind>(record)
RECURSIVE PageChunks(_, _)
PageChunks(kind, items) ==
    IF items = <<>> THEN <<>>
    ELSE RecordChunks(kind, Head(items)) \o PageChunks(kind, Tail(items))

\* The unique constraint of shopify_chunks: same store, content id and text
Duplicate(rows, row) ==
    \E i \in 1..Len(rows) :
        /\ rows[i].store_id = row.store_id
        /\ rows[i].content_id = row.content_id
        /\ rows[i].chunk_text = row.chunk_text

\* A delete without the store filter
DeleteEveryStore(rows, storeId) == <<>>

\* .delete().eq('store_id', this.storeId)
DeleteStore(rows, storeId) ==
    LET Others(r) == r.store_id # storeId
    IN  SelectSeq(rows, Others)

\* An error that is swallowed: the run goes on to the timestamp
FailsSwallowed(r, step) ==
    runs' = [runs EXCEPT ![r].pc = "updateSynced", ![r].error = step]

\* A throw leaves processShopifyStore
Fails(r, step) ==
    runs' = [runs EXCEPT ![r] = [RunIdle EXCEPT !.pc = "failed", !.owner = runs[r].owner,
                                               !.cleared = runs[r].cleared,
                                               !.prior = runs[r].prior,
                                               !.fetched = runs[r].fetched,
                                               !.error = step]]

\* Where a run goes on once the chunks of a page are stored: the next page,
\* the next kind, or the end of processAllData
AfterPage(run) ==
    IF run.hasNextPage THEN [run EXCEPT !.pc = "fetch"]
    ELSE IF run.kind < Len(Kinds)
    THEN [run EXCEPT !.pc = "fetch", !.kind = @ + 1, !.endCursor = 0, !.hasNextPage = TRUE]
    ELSE [run EXCEPT !.pc = "updateSynced"]

\* The runs that have returned or thrown
Ended == {e \in RunIds : runs[e].pc \in {"done", "failed"}}

\* The runs in progress
Active == {a \in RunIds : runs[a].pc \notin {"idle", "done", "failed"}}

\* What the responder and the retrieval layer own
IngestFrame == UNCHANGED <<respVars, documents, retr>>

\* processShopifyStore(storeId) is called; the runs are numbered in call order
StartRun(r) ==
    /\ runs[r].pc = "idle"
    /\ \A q \in RunIds : q < r => runs[q].pc # "idle"
    /\ Cardinality(Active) < MaxOverlap
    /\ \E o \in Owners :
         runs' = [runs EXCEPT ![r] = [RunIdle EXCEPT !.pc = "lookup", !.owner = o,
                                                    !.prior = Ended]]
    /\ tick' = tick + 1
    /\ UNCHANGED <<catalog, last_synced_at, shopify_chunks>>
    /\ IngestFrame

\* supabase.from('shopify_stores').select('*').eq('id', storeId).single()
LookupStore(r) ==
    /\ runs[r].pc = "lookup"
    /\ \/ Fails(r, "lookup")                         \* error || !store
       \/ /\ runs' = [runs EXCEPT ![r].pc = "clear"]
    /\ UNCHANGED <<catalog, last_synced_at, shopify_chunks, tick>>
    /\ IngestFrame

\* clearExistingChunks without its delete
ClearSkipsDelete(r) ==
    /\ runs[r].pc = "clear"
    /\ runs' = [runs EXCEPT ![r].pc = "fetch", ![r].cleared = TRUE]
    /\ UNCHANGED <<catalog, last_synced_at, tick, shopify_chunks>>
    /\ IngestFrame

\* await this.clearExistingChunks()
ClearExistingChunks(r) ==
    /\ runs[r].pc = "clear"
    /\ \/ /\ Fails(r, "clear")                       \* Failed to clear existing chunks
          /\ UNCHANGED shopify_chunks
       \/ /\ shopify_chunks' = DeleteStore(shopify_chunks, runs[r].owner)
          /\ runs' = [runs EXCEPT ![r].pc = "fetch", ![r].cleared = TRUE]
    /\ UNCHANGED <<catalog, last_synced_at, tick>>
    /\ IngestFrame

\* Variant that requests the first page every time
FetchPageFromStart(r) ==
    /\ runs[r].pc = "fetch"
    /\ \/ Fails(r, "fetch")
       \/ LET page == GetPage(catalog, Kinds[runs[r].kind], 0)
              chunks == PageChunks(Kinds[runs[r].kind], page.items)
              fetched == [runs[r] EXCEPT !.fetched = TRUE,
                                         !.hasNextPage = page.hasNextPage,
                                         !.endCursor = page.endCursor,
                                         !.pending = chunks,
                                         !.pages = Append(@,
                                             [kind |-> runs[r].kind,
                                              after |-> 0,
                                              endCursor |-> page.endCursor,
                                              hasNextPage |-> page.hasNextPage])]
          IN  /\ runs' = [runs EXCEPT ![r] = IF chunks = <<>> THEN AfterPage(fetched)
                                             ELSE [fetched EXCEPT !.pc = "store"]]
    /\ UNCHANGED <<catalog, last_synced_at, shopify_chunks, tick>>
    /\ IngestFrame

\* const { items, hasNextPage, endCursor } = await this.client.get<Kind>s(n, endCursor)
FetchPage(r) ==
    /\ runs[r].pc = "fetch"
    /\ \/ Fails(r, "fetch")
       \/ LET page == GetPage(catalog, Kinds[runs[r].kind], runs[r].endCursor)
              chunks == PageChunks(Kinds[runs[r].kind], page.items)
              fetched == [runs[r] EXCEPT !.fetched = TRUE,
                                         !.hasNextPage = page.hasNextPage,
                                         !.endCursor = page.endCursor,
                                         !.pending = chunks,
                                         !.pages = Append(@,
                                             [kind |-> runs[r].kind,
                                              after |-> runs[r].endCursor,
                                              endCursor |-> page.endCursor,
                                              hasNextPage |-> page.hasNextPage])]
          IN  /\ runs' = [runs EXCEPT ![r] = IF chunks = <<>> THEN AfterPage(fetched)
                                             ELSE [fetched EXCEPT !.pc = "store"]]
    /\ UNCHANGED <<catalog, last_synced_at, shopify_chunks, tick>>
    /\ IngestFrame

\* storeChunk that logs a missing embedding or a store error and returns
StoreChunkGoesOn(r) ==
    /\ runs[r].pc = "store"
    /\ LET chunkData == Head(runs[r].pending)
           row == ShopifyRow(runs[r].owner, chunkData, EmbedValue(chunkData.text), r)
           answer == IF Duplicate(shopify_chunks, row) THEN "23505" ELSE "stored"
           rest == [runs[r] EXCEPT !.pending = Tail(@)]
           next == IF rest.pending = <<>> THEN AfterPage(rest) ELSE rest
       IN  \/ /\ runs' = [runs EXCEPT ![r] = [next EXCEPT !.error = "embedding"]]
              /\ UNCHANGED shopify_chunks
           \/ /\ runs' = [runs EXCEPT ![r] = [next EXCEPT !.error = "insert"]]
              /\ UNCHANGED shopify_chunks
           \/ /\ shopify_chunks' = IF answer = "23505"
                                    THEN shopify_chunks
                                    ELSE Append(shopify_chunks, row)
              /\ runs' = [runs EXCEPT ![r] = next]
    /\ UNCHANGED <<catalog, last_synced_at, tick>>
    /\ IngestFrame

\* storeChunk that rethrows the unique-constraint error
StoreChunkThrowsOnDuplicate(r) ==
    /\ runs[r].pc = "store"
    /\ LET chunkData == Head(runs[r].pending)
           row == ShopifyRow(runs[r].owner, chunkData, EmbedValue(chunkData.text), r)
           answer == IF Duplicate(shopify_chunks, row) THEN "23505" ELSE "stored"
           rest == [runs[r] EXCEPT !.pending = Tail(@)]
           next == IF rest.pending = <<>> THEN AfterPage(rest) ELSE rest
       IN  \/ /\ Fails(r, "embedding")
              /\ UNCHANGED shopify_chunks
           \/ /\ Fails(r, "insert")
              /\ UNCHANGED shopify_chunks
           \/ /\ answer = "23505"
              /\ Fails(r, "23505")
              /\ UNCHANGED shopify_chunks
           \/ /\ answer = "stored"
              /\ shopify_chunks' = Append(shopify_chunks, row)
              /\ runs' = [runs EXCEPT ![r] = next]
    /\ UNCHANGED <<catalog, last_synced_at, tick>>
    /\ IngestFrame

\* await this.storeChunk(chunkData): embedText, then the insert
StoreChunk(r) ==
    /\ runs[r].pc = "store"
    /\ LET chunkData == Head(runs[r].pending)
           row == ShopifyRow(runs[r].owner, chunkData, EmbedValue(chunkData.text), r)
           answer == IF Duplicate(shopify_chunks, row) THEN "23505" ELSE "stored"
           rest == [runs[r] EXCEPT !.pending = Tail(@)]
           next == IF rest.pending = <<>> THEN AfterPage(rest) ELSE rest
       IN  \/ /\ Fails(r, "embedding")  \* Failed to generate embedding
              /\ UNCHANGED shopify_chunks
           \/ /\ Fails(r, "insert")     \* an error other than 23505
              /\ UNCHANGED shopify_chunks
           \/ /\ shopify_chunks' = IF answer = "23505"
                                    THEN shopify_chunks          \* logged and skipped
                                    ELSE Append(shopify_chunks, row)
              /\ runs' = [runs EXCEPT ![r] = next]
    /\ UNCHANGED <<catalog, last_synced_at, tick>>
    /\ IngestFrame

\* update({ last_synced_at: new Date().toISOString() }).eq('id', storeId)
UpdateLastSynced(r) ==
    /\ runs[r].pc = "updateSynced"
    /\ \/ last_synced_at' = [last_synced_at EXCEPT ![runs[r].owner] = <<tick>>]
       \/ UNCHANGED last_synced_at                   \* the store reports an error, not read
    /\ runs' = [runs EXCEPT ![r] = [RunIdle EXCEPT !.pc = "done", !.owner = runs[r].owner,
                                                   !.cleared = runs[r].cleared,
                                                   !.prior = runs[r].prior]]
    /\ UNCHANGED <<catalog, shopify_chunks, tick>>
    /\ IngestFrame

\* The merchant edits the catalog
ChangeCatalog ==
    /\ catalog = "v1"
    /\ catalog' = "v2"
    /\ UNCHANGED <<runs, last_synced_at, tick, shopify_chunks>>
    /\ IngestFrame

\* Rows left by an ingestion of catalog v1 that ended before any run began
EarlierRows(o) ==
    <<ShopifyRow(o, ChunkData("product", "p1", "Mug", "mugA"), EmbedValue("mugA"), 0),
      ShopifyRow(o, ChunkData("product", "p0", "Old", "old"), EmbedValue("old"), 0)>>

InitIngest ==
    /\ pc = "idle"
    /\ args = [fromNumber |-> Customer, toNumber |-> Business,
               messageText |-> "", messageId |-> ""]
    /\ loc = InitLoc
    /\ attempt = 0
    /\ queryCalls = 0
    /\ waits = <<>>
    /\ queryResult = NoResult
    /\ result = NoResult
    /\ escaped = FALSE
    /\ nReturns = 0
    /\ calls = {}
    /\ sends = <<>>
    /\ whatsapp_messages = <<>>
    /\ store0 = <<>>
    /\ now = 0
    /\ invocations = 0
    /\ budget = 0
    /\ documents = SampleDocuments
    /\ retr = RetrIdle
    /\ shopify_chunks = EarlierRows("s1") \o EarlierRows(OtherStore)
    /\ catalog = "v1"
    /\ runs = [r \in RunIds |-> RunIdle]
    /\ last_synced_at = [o \in Owners |-> None]
    /\ tick = 0

NextIngest ==
    \/ \E r \in RunIds : StartRun(r)
    \/ \E r \in RunIds : LookupStore(r)
    \/ \E r \in RunIds : ClearExistingChunks(r)
    \/ \E r \in RunIds : FetchPage(r)
    \/ \E r \in RunIds : StoreChunk(r)
    \/ \E r \in RunIds : UpdateLastSynced(r)
    \/ ChangeCatalog

SpecIngest == InitIngest /\ [][NextIngest]_vars

\* One call of processShopifyStore over a catalog of several pages per kind;
\* the calls before it ended at the store lookup
InitPaging ==
    /\ pc = "idle"
    /\ args = [fromNumber |-> Customer, toNumber |-> Business,
               messageText |-> "", messageId |-> ""]
    /\ loc = InitLoc
    /\ attempt = 0
    /\ queryCalls = 0
    /\ waits = <<>>
    /\ queryResult = NoResult
    /\ result = NoResult
    /\ escaped = FALSE
    /\ nReturns = 0
    /\ calls = {}
    /\ sends = <<>>
    /\ whatsapp_messages = <<>>
    /\ store0 = <<>>
    /\ now = 0
    /\ invocations = 0
    /\ budget = 0
    /\ documents = SampleDocuments
    /\ retr = RetrIdle
    /\ shopify_chunks \in {<<>>, EarlierRows("s1") \o EarlierRows(OtherStore)}
    /\ catalog \in {"v1", "v3"}
    /\ runs = [r \in RunIds |->
                 IF r < MaxRuns
                 THEN [RunIdle EXCEPT !.pc = "failed", !.owner = "s1", !.error = "lookup"]
                 ELSE RunIdle]
    /\ last_synced_at = [o \in Owners |-> None]
    /\ tick = MaxRuns - 1

\* A step of run r: the continuation after the call it awaits has settled
RunStep(r) ==
    \/ LookupStore(r)
    \/ ClearExistingChunks(r)
    \/ FetchPage(r)
    \/ StoreChunk(r)
    \/ UpdateLastSynced(r)

\* Every awaited call settles and the event loop then runs the continuation
SpecPaging ==
    /\ InitPaging
    /\ [][NextIngest]_vars
    /\ \A r \in RunIds : WF_vars(RunStep(r))

\* Two calls of processShopifyStore for one store are both in progress, each
\* awaiting its store lookup; the calls before them ended at the store lookup
InitOverlap ==
    /\ pc = "idle"
    /\ args = [fromNumber |-> Customer, toNumber |-> Business,
               messageText |-> "", messageId |-> ""]
    /\ loc = InitLoc
    /\ attempt = 0
    /\ queryCalls = 0
    /\ waits = <<>>
    /\ queryResult = NoResult
    /\ result = NoResult
    /\ escaped = FALSE
    /\ nReturns = 0
    /\ calls = {}
    /\ sends = <<>>
    /\ whatsapp_messages = <<>>
    /\ store0 = <<>>
    /\ now = 0
    /\ invocations = 0
    /\ budget = 0
    /\ documents = SampleDocuments
    /\ retr = RetrIdle
    /\ shopify_chunks = EarlierRows("s1") \o EarlierRows(OtherStore)
    /\ catalog = "v1"
    /\ runs = [r \in RunIds |->
                 IF r < MaxRuns - 1
                 THEN [RunIdle EXCEPT !.pc = "failed", !.owner = "s1", !.error = "lookup"]
                 ELSE [RunIdle EXCEPT !.pc = "lookup", !.owner = "s1",
                                      !.prior = 1..(MaxRuns - 2)]]
    /\ last_synced_at = [o \in Owners |-> None]
    /\ tick = MaxRuns

\* The merchant edits the catalog between the two calls: the earlier one has
\* received all its pages and the later one has not requested any
ChangeCatalogBetween ==
    /\ catalog = "v1"
    /\ runs[MaxRuns - 1].pc \in {"updateSynced", "done"}
    /\ runs[MaxRuns].pc \in {"lookup", "clear", "fetch"}
    /\ ~runs[MaxRuns].fetched
    /\ catalog' = "v2"
    /\ UNCHANGED <<runs, last_synced_at, tick, shopify_chunks>>
    /\ IngestFrame

NextOverlap ==
    \/ \E r \in RunIds : RunStep(r)
    \/ ChangeCatalogBetween

SpecOverlap == InitOverlap /\ [][NextOverlap]_vars

----------------------------------------------------------------------------
(* Ingestion with tenant-store retrieval running beside it *)

\* The store ids a retrieval may name: the synced store, the store that is not
\* synced, and one without rows
TenantIds == Owners \cup {OtherStore, "s3"}

\* retrieveRelevantShopifyChunks(queryEmbedding, storeId, 5) is called and returns
SearchShopify ==
    /\ \E storeId \in TenantIds, q \in {0, MaxEmb} :
         \/ retr' = [RetrIdle EXCEPT !.pc = "threw"]         \* throw error
         \/ retr' = [RetrIdle EXCEPT !.pc = "returned", !.storeId = storeId, !.query = q,
                                     !.limit = RetrievalLimit,
                                     !.result = RetrieveRelevantShopifyChunks(
                                                   shopify_chunks, q, storeId, RetrievalLimit)]
    /\ UNCHANGED <<respVars, documents, shopify_chunks, ingestVars>>

NextTenant ==
    \/ \E r \in RunIds : StartRun(r)
    \/ \E r \in RunIds : LookupStore(r)
    \/ \E r \in RunIds : ClearExistingChunks(r)
    \/ \E r \in RunIds : FetchPage(r)
    \/ \E r \in RunIds : StoreChunk(r)
    \/ \E r \in RunIds : UpdateLastSynced(r)
    \/ ChangeCatalog
    \/ SearchShopify

\* One call of processShopifyStore is still to come: the calls before it ended
\* at the store lookup and have touched nothing
InitTenant ==
    /\ pc = "idle"
    /\ args = [fromNumber |-> Customer, toNumber |-> Business,
               messageText |-> "", messageId |-> ""]
    /\ loc = InitLoc
    /\ attempt = 0
    /\ queryCalls = 0
    /\ waits = <<>>
    /\ queryResult = NoResult
    /\ result = NoResult
    /\ escaped = FALSE
    /\ nReturns = 0
    /\ calls = {}
    /\ sends = <<>>
    /\ whatsapp_messages = <<>>
    /\ store0 = <<>>
    /\ now = 0
    /\ invocations = 0
    /\ budget = 0
    /\ documents = SampleDocuments
    /\ retr = RetrIdle
    /\ shopify_chunks \in {<<>>, EarlierRows(OtherStore),
                            EarlierRows("s1") \o EarlierRows(OtherStore),
                            EarlierRows(OtherStore) \o EarlierRows("s1")}
    /\ catalog \in {"v1", "v2"}
    /\ runs = [r \in RunIds |->
                 IF r < MaxRuns
                 THEN [RunIdle EXCEPT !.pc = "failed", !.owner = "s1", !.error = "lookup"]
                 ELSE RunIdle]
    /\ last_synced_at = [o \in Owners |-> None]
    /\ tick = MaxRuns - 1

SpecTenant == InitTenant /\ [][NextTenant]_vars

----------------------------------------------------------------------------
(* Properties of the ingestion *)

\* The rows of an owner
RowsOf(o) == {i \in 1..Len(shopify_chunks) : shopify_chunks[i].store_id = o}

\* processAllData of run r returned without an error
Completed(r) == runs[r].pc \in {"updateSynced", "done"}

\* Row i was stored by an ingestion that had ended when run r was called
StoredEarlier(i, r) ==
    \/ shopify_chunks[i].run = 0
    \/ shopify_chunks[i].run \in runs[r].prior

\* C1: full replace. Once processAllData of a run has completed without error,
\* the owner's rows hold no row stored by an ingestion that ended before the
\* run was called (what the current source still produces is there as a row
\* stored anew), and a run has stored no row before its delete was applied.
C1_FullReplace ==
    \A r \in RunIds :
        /\ Completed(r) =>
              \A i \in RowsOf(runs[r].owner) : ~StoredEarlier(i, r)
        /\ (\E i \in 1..Len(shopify_chunks) : shopify_chunks[i].run = r) =>
              runs[r].cleared

\* A run over the changed catalog completed for an owner that had rows of an
\* earlier ingestion, and the owner's rows are now the ones this run stored
C1_Witness ==
    \E r \in RunIds :
        /\ runs[r].pc = "done"
        /\ runs[r].prior # {}
        /\ \E e \in runs[r].prior : runs[e].pc = "done" /\ runs[e].owner = runs[r].owner
        /\ catalog = "v2"
        /\ RowsOf(runs[r].owner) # {}
        /\ \A i \in RowsOf(runs[r].owner) : shopify_chunks[i].run = r
        /\ \E i \in RowsOf(runs[r].owner) : shopify_chunks[i].content_id = "c1"

\* Two rows of one store with the same content id and text
IdenticalRows ==
    \E i, j \in 1..Len(shopify_chunks) :
        /\ i < j
        /\ shopify_chunks[i].store_id = shopify_chunks[j].store_id
        /\ shopify_chunks[i].content_id = shopify_chunks[j].content_id
        /\ shopify_chunks[i].chunk_text = shopify_chunks[j].chunk_text

\* Run r is about to store a chunk that the owner already has
StoresDuplicate(r) ==
    /\ runs[r].pc = "store"
    /\ \E i \in RowsOf(runs[r].owner) :
          /\ shopify_chunks[i].content_id = Head(runs[r].pending).content_id
          /\ shopify_chunks[i].chunk_text = Head(runs[r].pending).text

\* A step of storeChunk in run r that did not throw for a missing embedding or
\* for a store error other than the unique-constraint one
StoreChunkStep(r) ==
    /\ runs[r].pc = "store"
    /\ runs'[r] # runs[r]
    /\ runs'[r].error \notin {"embedding", "insert"}

\* C12: a duplicate insert is a no-op. When storeChunk inserts a chunk the owner
\* already has, the rows stay as they are, the run does not fail and goes on
\* with the next chunk (or with what follows the page); and the store never
\* holds two rows of one owner with the same content id and text.
C12_DuplicateIsNoOp ==
    /\ [](~IdenticalRows)
    /\ [][\A r \in RunIds :
            (StoresDuplicate(r) /\ StoreChunkStep(r)) =>
                /\ shopify_chunks' = shopify_chunks
                /\ runs'[r].pc \in {"store", "fetch", "updateSynced"}
                /\ Tail(runs[r].pending) # <<>> =>
                      runs'[r].pending = Tail(runs[r].pending)]_vars

\* A run stored the piece that its record yields twice and went on to its end
\* after the store refused the second one; the owner holds the piece once
C12_Witness ==
    \E r \in RunIds :
        /\ runs[r].pc = "done"
        /\ Cardinality({i \in RowsOf(runs[r].owner) :
                           /\ shopify_chunks[i].chunk_text = "mugA"
                           /\ shopify_chunks[i].run = r}) = 1

\* The rows of store o, in table order
StoreRows(rows, o) ==
    LET Mine(row) == row.store_id = o
    IN  SelectSeq(rows, Mine)

\* C13: tenant isolation. A step that changes the rows of a store is a step of
\* an ingestion run for that store, so a run for one owner leaves the rows of
\* every other owner as they are; and tenant-store retrieval for a store
\* returns only rows that the table holds under that store id when it is read.
C13_TenantIsolation ==
    /\ [][\A o \in TenantIds :
            StoreRows(shopify_chunks', o) # StoreRows(shopify_chunks, o) =>
                \E r \in RunIds : runs[r].owner = o /\ runs'[r] # runs[r]]_vars
    /\ [][(retr' # retr /\ retr'.pc = "returned") =>
            \A i \in 1..Len(retr'.result) :
                /\ retr'.result[i].store_id = retr'.storeId
                /\ \E k \in 1..Len(shopify_chunks) :
                      /\ shopify_chunks[k].id = retr'.result[i].id
                      /\ shopify_chunks[k].chunk_text = retr'.result[i].chunk
                      /\ shopify_chunks[k].store_id = retr'.storeId]_vars

\* A run for s1 has replaced the rows of s1 while the rows of the other store
\* are the ones it had at the start, and a retrieval for s1 returned rows
C13_Witness ==
    /\ \E r \in RunIds : runs[r].pc = "done" /\ runs[r].owner = "s1"
    /\ StoreRows(shopify_chunks, OtherStore) = EarlierRows(OtherStore)
    /\ \E i \in RowsOf("s1") : shopify_chunks[i].run # 0
    /\ retr.pc = "returned" /\ retr.storeId = "s1" /\ retr.result # <<>>

\* The rows stored by the runs
IngestedRows == {i \in 1..Len(shopify_chunks) : shopify_chunks[i].run # 0}

\* C14: ingestion stores no chunk longer than the chunk-size bound, also for
\* records whose formatted text is longer than the bound, and no chunk that is
\* empty or made of whitespace only.
C14_ChunksBoundedAndNonBlank ==
    \A i \in IngestedRows :
        /\ Len(shopify_chunks[i].chunk_text) <= ChunkSize
        /\ Len(shopify_chunks[i].chunk_text) > 0
        /\ \E k \in 1..Len(shopify_chunks[i].chunk_text) :
              SubSeq(shopify_chunks[i].chunk_text, k, k) # " "

\* A run stored the chunks of a record that is longer than the bound and has a
\* whitespace-only segment, and went on to its end
C14_Witness ==
    \E r \in RunIds :
        /\ runs[r].pc = "done"
        /\ \E p \in 1..Len(Catalog("v1").product) :
              \E rec \in Range(Catalog("v1").product[p]) :
                  /\ Len(rec.text) > ChunkSize
                  /\ \E c \in Range(ChunkText(rec.text, ChunkSize)) : ~NonBlank(c)
                  /\ \E i \in IngestedRows :
                        /\ shopify_chunks[i].run = r
                        /\ shopify_chunks[i].content_id = rec.id
                        /\ Len(shopify_chunks[i].chunk_text) = ChunkSize

\* Run r has applied its delete and gone through the products, the pages and
\* the collections to the last page of each, with no step throwing
IngestionComplete(r) ==
    /\ runs[r].cleared
    /\ runs[r].kind = Len(Kinds)
    /\ ~runs[r].hasNextPage
    /\ runs[r].pending = <<>>
    /\ runs[r].error = ""

\* C16: the last-synced timestamp of an owner is written only by a run for
\* that owner whose whole ingestion completed without error; a step in which a
\* run fails (store lookup, delete, page request, embedding, insert) leaves
\* every timestamp as it is.
C16_TimestampOnlyAfterSuccess ==
    /\ [](\A r \in RunIds : runs[r].pc = "updateSynced" => IngestionComplete(r))
    /\ [][\A o \in Owners :
            last_synced_at'[o] # last_synced_at[o] =>
                \E r \in RunIds : /\ runs[r].owner = o
                                  /\ runs[r].pc = "updateSynced"
                                  /\ runs'[r].pc = "done"]_vars
    /\ [][(\E r \in RunIds : runs[r].pc # "failed" /\ runs'[r].pc = "failed") =>
            last_synced_at' = last_synced_at]_vars

\* The first run completed and stamped the owner; the second run stored part
\* of the catalog and failed at an insert, and the timestamp is still the first
C16_Witness ==
    /\ runs[1].pc = "done" /\ runs[2].pc = "failed"
    /\ runs[2].error = "insert"
    /\ runs[1].owner = runs[2].owner
    /\ \E i \in RowsOf(runs[2].owner) : shopify_chunks[i].run = 2
    /\ last_synced_at[runs[2].owner] = <<1>>

\* The ids of the rows that run r stored
StoredBy(rows, r) == {rows[i].id : i \in {k \in 1..Len(rows) : rows[k].run = r}}

\* C17: ingestion abort. A run whose delete fails has requested no page and
\* stored no row; a run in which a step threw (store lookup, delete, page
\* request, embedding, insert error other than the duplicate one) has stopped:
\* it takes no further step and stores no further row, and the step that threw
\* leaves the rows written before it in place.
C17_AbortOnError ==
    /\ [](\A r \in RunIds :
            /\ runs[r].error # "" => runs[r].pc = "failed"
            /\ runs[r].error \in {"lookup", "clear"} =>
                  /\ ~runs[r].fetched
                  /\ ~runs[r].cleared
                  /\ StoredBy(shopify_chunks, r) = {})
    /\ [][\A r \in RunIds :
            /\ runs[r].pc = "failed" =>
                  /\ runs'[r] = runs[r]
                  /\ StoredBy(shopify_chunks', r) \subseteq StoredBy(shopify_chunks, r)
            /\ (runs[r].pc # "failed" /\ runs'[r].pc = "failed") =>
                  shopify_chunks' = shopify_chunks]_vars

\* A run stored the first chunk of its first record and failed at an embedding
\* after that; the row it stored is still there and it stored nothing else
C17_Witness ==
    \E r \in RunIds :
        /\ runs[r].pc = "failed" /\ runs[r].error = "embedding"
        /\ StoredBy(shopify_chunks, r) = {"s1/p1/mugA"}

\* The kind and the cursor of the page request that follows the requests p
NextKind(p) ==
    IF p = <<>> THEN 1
    ELSE IF p[Len(p)].hasNextPage THEN p[Len(p)].kind ELSE p[Len(p)].kind + 1

NextCursor(p) ==
    IF p = <<>> THEN 0
    ELSE IF p[Len(p)].hasNextPage THEN p[Len(p)].endCursor ELSE 0

\* The owner of run r holds the chunk c
Written(rows, r, c) ==
    \E i \in 1..Len(rows) :
        /\ rows[i].store_id = runs[r].owner
        /\ rows[i].content_id = c.content_id
        /\ rows[i].chunk_text = c.text

\* C21: ingestion pagination. A run requests the pages of the products, then
\* of the pages, then of the collections; the first request of a kind passes no
\* cursor and every other one the cursor the previous answer returned; a kind
\* is left exactly when an answer reports no further page; a page is requested
\* only when every chunk of the page before it has been written, one chunk per
\* step; and a run whose awaited calls settle ends, with finitely many pages.
C21_Pagination ==
    /\ [](\A r \in RunIds :
            LET p == runs[r].pages
            IN  /\ \A i \in 1..Len(p) :
                      /\ p[i].kind = NextKind(SubSeq(p, 1, i - 1))
                      /\ p[i].after = NextCursor(SubSeq(p, 1, i - 1))
                      /\ p[i].kind \in 1..Len(Kinds)
                /\ runs[r].pc = "fetch" =>
                      /\ runs[r].pending = <<>>
                      /\ runs[r].kind = NextKind(p)
                      /\ (IF runs[r].hasNextPage THEN runs[r].endCursor ELSE 0)
                            = NextCursor(p)
                      /\ runs[r].endCursor = 0 \/ runs[r].hasNextPage
                /\ runs[r].pc = "store" =>
                      /\ runs[r].pending # <<>>
                      /\ p # <<>> /\ runs[r].kind = p[Len(p)].kind
                /\ runs[r].pc = "updateSynced" =>
                      /\ runs[r].pending = <<>>
                      /\ NextKind(p) = Len(Kinds) + 1)
    /\ [][\A r \in RunIds :
            /\ runs'[r].pages # runs[r].pages =>
                  \/ runs'[r].pages = <<>>
                  \/ /\ runs[r].pc = "fetch" /\ runs[r].pending = <<>>
                     /\ LET page == GetPage(catalog, Kinds[runs[r].kind], runs[r].endCursor)
                        IN  runs'[r].pages = Append(runs[r].pages,
                                [kind |-> runs[r].kind, after |-> runs[r].endCursor,
                                 endCursor |-> page.endCursor,
                                 hasNextPage |-> page.hasNextPage])
            /\ (runs[r].pc = "store" /\ runs'[r].pc \notin {"store", "failed"}) =>
                  Tail(runs[r].pending) = <<>>
            /\ (runs[r].pc = "store" /\ runs'[r] # runs[r] /\ runs'[r].pc # "failed") =>
                  /\ runs'[r].pending = Tail(runs[r].pending)
                  /\ Written(shopify_chunks', r, Head(runs[r].pending))]_vars
    /\ \A r \in RunIds : (runs[r].pc = "lookup") ~> (runs[r].pc \in {"done", "failed"})

\* A run went through three pages of products, one of pages and two of
\* collections, each requested with the cursor of the one before, and has
\* written the chunks of every record
C21_Witness ==
    \E r \in RunIds :
        /\ runs[r].pc = "updateSynced"
        /\ catalog = "v3"
        /\ [i \in 1..Len(runs[r].pages) |->
               <<runs[r].pages[i].kind, runs[r].pages[i].after>>]
             = << <<1, 0>>, <<1, 1>>, <<1, 2>>, <<2, 0>>, <<3, 0>>, <<3, 1>> >>
        /\ StoredBy(shopify_chunks, r) =
              {"s1/p1/mugA", "s1/p2/cup", "s1/p3/jar", "s1/p4/pot",
               "s1/g1/page", "s1/c1/sale", "s1/c2/new"}

\* The chunks one full sync of a catalog stores, as (content id, text) pairs
RECURSIVE PagesChunks(_, _)
PagesChunks(kind, pages) ==
    IF pages = <<>> THEN {}
    ELSE {<<c.content_id, c.text>> : c \in Range(PageChunks(kind, Head(pages)))}
            \cup PagesChunks(kind, Tail(pages))

FullSync(version) ==
    UNION {PagesChunks(Kinds[k], Catalog(version)[Kinds[k]]) : k \in 1..Len(Kinds)}

\* The chunks the owner holds, and how many rows hold each
Held(o) == {<<shopify_chunks[i].content_id, shopify_chunks[i].chunk_text>> : i \in RowsOf(o)}

HeldOnce(o) == Cardinality(RowsOf(o)) = Cardinality(Held(o))

\* The two runs that overlap, both with processAllData completed
BothCompleted == Completed(MaxRuns - 1) /\ Completed(MaxRuns)

\* The catalog changes at most once, from v1 to v2
SourceUnchanged == catalog = "v1"

\* Over an unchanged source two overlapping runs that both complete leave the
\* owner with one full sync: every chunk of the source, each once
C23_UnchangedSourceIsOneSync ==
    (BothCompleted /\ SourceUnchanged) =>
        /\ Held("s1") = FullSync(catalog)
        /\ HeldOnce("s1")

\* The owner never holds chunks of the old source state beside chunks of the new
C23_NoMixOfGenerations ==
    BothCompleted =>
        ~(/\ Held("s1") \cap (FullSync("v1") \ FullSync("v2")) # {}
          /\ Held("s1") \cap (FullSync("v2") \ FullSync("v1")) # {})

\* C23: overlapping runs for one owner. When both complete over an unchanged
\* source the owner holds one full sync (every chunk once, none lost to the
\* other run's delete); when the source changed between the two runs, the
\* owner's chunks are not a mix of the old and the new source state.
C23_OverlappingRuns ==
    /\ C23_UnchangedSourceIsOneSync
    /\ C23_NoMixOfGenerations

====
